---- MODULE Spec2Model ----
(***************************************************************************)
(* Fractal synchronization request (id, aggregate) generator.              *)
(* Model of src/sw/fractal_sync_req_gen.c and fractal_sync_req_gen.h.      *)
(*                                                                         *)
(* A CU is a record [cu_id, y_pos, x_pos, fsync_req], fsync_req being      *)
(* [fs_req_aggr, fs_req_id, req_node], as in the header.  An array of CUs  *)
(* is a sequence; the scratch arrays of pointers of the partition engine   *)
(* are sequences of indices into the working copy temp_cus.                *)
(***************************************************************************)
EXTENDS Integers, Sequences

(* ------------------------------------------------------------------ *)
(* Configuration (fractal_sync_req_gen.h)                              *)
(* ------------------------------------------------------------------ *)
FSYNC_N_CU_X == 4
FSYNC_N_CU_Y == 4
FSYNC_N_LVL == 4
FSYNC_DEFAULT_TH == FSYNC_N_CU_X \div 2

(* The fields are unsigned int.  A call shifts an aggregate at most    *)
(* four times, starting from 0, and decrements hops at most four times *)
(* starting from FSYNC_N_LVL (each threshold goes 2, 1, 0), so no      *)
(* operation of the generator wraps around and plain integer           *)
(* arithmetic is exact.                                                *)

fsync_dir == {"h_fs_dir", "v_fs_dir"}
fsync_node == {"null_fs_node", "h_fs_node", "v_fs_node", "hv_fs_node"}

(* ------------------------------------------------------------------ *)
(* Bounds of the explored inputs                                       *)
(* ------------------------------------------------------------------ *)
(* longest CU list handed to the generator *)
MaxCUs == 3
(* how far beyond the grid edge the coordinates of a CU pair may lie *)
OutOfGrid == 1
(* how many mallocs of one call may fail *)
MaxAllocFail == 1

(* ------------------------------------------------------------------ *)
(* Arithmetic helpers                                                  *)
(* ------------------------------------------------------------------ *)
abs_diff(x, y) == IF x > y THEN x - y ELSE y - x

(* x << n on an unsigned int *)
ShiftLeft(x, n) == x * (2 ^ n)

(* x | b for a bit b, x being even or odd *)
OrBit(x, b) == IF x % 2 = 1 THEN x ELSE x + b

(* --x on an unsigned int *)
Decr(x) == x - 1

(* faulty variant: the parity of the larger coordinate *)
fsync_nbr_node_larger(pos1, pos2) ==
  IF pos1 > pos2 THEN pos1 % 2 = 1 ELSE pos2 % 2 = 1

fsync_nbr_node(pos1, pos2) ==
  IF pos1 < pos2 THEN pos1 % 2 = 1 ELSE pos2 % 2 = 1

fsync_same_subtree(pos1, pos2, threshold) ==
  \/ (pos1 < threshold /\ pos2 < threshold)
  \/ (pos1 >= threshold /\ pos2 >= threshold)

(* the value written to *pos, and the value returned *)
fsync_update_pos(pos, threshold) ==
  [pos |-> IF pos < threshold THEN pos ELSE pos - threshold,
   ret |-> threshold \div 2]

(* ------------------------------------------------------------------ *)
(* Partition engine helpers: t is the array the pointers point into,   *)
(* ptrs a scratch array of pointers (indices into t)                   *)
(* ------------------------------------------------------------------ *)
(* the loops append in order of cus[]; ret is the function's result *)
fsync_partition_h_cus(t, ptrs, threshold) ==
  LET l == SelectSeq(ptrs, LAMBDA p : t[p].x_pos < threshold)
      h == SelectSeq(ptrs, LAMBDA p : ~(t[p].x_pos < threshold))
  IN [l_cus |-> l, h_cus |-> h, ret |-> (Len(l) > 0) /\ (Len(h) > 0)]

(* faulty variant: <= in place of < *)
fsync_partition_v_cus_leq(t, ptrs, threshold) ==
  LET l == SelectSeq(ptrs, LAMBDA p : t[p].y_pos <= threshold)
      h == SelectSeq(ptrs, LAMBDA p : ~(t[p].y_pos <= threshold))
  IN [l_cus |-> l, h_cus |-> h, ret |-> (Len(l) > 0) /\ (Len(h) > 0)]

fsync_partition_v_cus(t, ptrs, threshold) ==
  LET l == SelectSeq(ptrs, LAMBDA p : t[p].y_pos < threshold)
      h == SelectSeq(ptrs, LAMBDA p : ~(t[p].y_pos < threshold))
  IN [l_cus |-> l, h_cus |-> h, ret |-> (Len(l) > 0) /\ (Len(h) > 0)]

(* the for loops: iteration i (counted from 1) and those after it *)
RECURSIVE UpdateHPossFrom(_, _, _, _)
UpdateHPossFrom(t, ptrs, threshold, i) ==
  IF i > Len(ptrs) THEN t
  ELSE UpdateHPossFrom(
         [t EXCEPT ![ptrs[i]].x_pos = fsync_update_pos(@, threshold).pos],
         ptrs, threshold, i + 1)

RECURSIVE UpdateVPossFrom(_, _, _, _)
UpdateVPossFrom(t, ptrs, threshold, i) ==
  IF i > Len(ptrs) THEN t
  ELSE UpdateVPossFrom(
         [t EXCEPT ![ptrs[i]].y_pos = fsync_update_pos(@, threshold).pos],
         ptrs, threshold, i + 1)

fsync_update_h_poss(t, ptrs, threshold) ==
  [cus |-> UpdateHPossFrom(t, ptrs, threshold, 1), ret |-> threshold \div 2]

fsync_update_v_poss(t, ptrs, threshold) ==
  [cus |-> UpdateVPossFrom(t, ptrs, threshold, 1), ret |-> threshold \div 2]

(* the body of the loop of fsync_update_cus_req, on one request *)
UpdateReq(req, dir, node, node_active) ==
  LET aggr == OrBit(ShiftLeft(req.fs_req_aggr, 1), IF node_active THEN 1 ELSE 0)
  IN IF req.req_node = "null_fs_node" /\ node_active
     THEN [fs_req_aggr |-> aggr,
           fs_req_id   |-> IF dir = "h_fs_dir" THEN 0 ELSE 1,
           req_node    |-> node]
     ELSE [req EXCEPT !.fs_req_aggr = aggr]

RECURSIVE UpdateCusReqFrom(_, _, _, _, _, _)
UpdateCusReqFrom(t, ptrs, dir, node, node_active, i) ==
  IF i > Len(ptrs) THEN t
  ELSE UpdateCusReqFrom(
         [t EXCEPT ![ptrs[i]].fsync_req = UpdateReq(@, dir, node, node_active)],
         ptrs, dir, node, node_active, i + 1)

(* faulty variant: the loop misses the first CU of the subset *)
fsync_update_cus_req_from1(t, ptrs, dir, node, node_active) ==
  UpdateCusReqFrom(t, ptrs, dir, node, node_active, 2)

fsync_update_cus_req(t, ptrs, dir, node, node_active) ==
  UpdateCusReqFrom(t, ptrs, dir, node, node_active, 1)

(* ------------------------------------------------------------------ *)
(* Partition engine: fsync_partition_subtree                           *)
(* A call is a frame [cus, dir, threshold, node].                      *)
(* ------------------------------------------------------------------ *)
Frame(ptrs, dir, threshold, node) ==
  [cus |-> ptrs, dir |-> dir, threshold |-> threshold, node |-> node]

(* faulty variant: a 2D node always follows the direction it was handed *)
NextDirAlwaysDir(dir, h_node_active, v_node_active) == dir

(* the if / else-if / else of a 2D node: the direction handed to the *)
(* two sub-calls (the other axis' split is the one that is recursed on) *)
NextDir(dir, h_node_active, v_node_active) ==
  IF (h_node_active /\ v_node_active) \/ (~h_node_active /\ ~v_node_active)
  THEN dir
  ELSE IF h_node_active THEN "h_fs_dir" ELSE "v_fs_dir"

(* body of a call on a 2D node with every malloc succeeding, up to the *)
(* recursive calls: the array after the updates, the node's own flag   *)
(* and the frames of the two sub-calls                                 *)
PartitionNode2D(t, f) ==
  LET h == fsync_partition_h_cus(t, f.cus, f.threshold)
      v == fsync_partition_v_cus(t, f.cus, f.threshold)
      node_active == h.ret /\ v.ret
      next == NextDir(f.dir, h.ret, v.ret)
  IN IF next = "h_fs_dir"
     THEN LET t1 == fsync_update_cus_req(t, v.l_cus, f.dir, f.node, node_active)
              t2 == fsync_update_cus_req(t1, v.h_cus, f.dir, f.node, node_active)
              t3 == fsync_update_v_poss(t2, v.h_cus, f.threshold).cus
          IN [cus |-> t3, node_active |-> node_active,
              l |-> Frame(v.l_cus, "h_fs_dir", f.threshold, "h_fs_node"),
              h |-> Frame(v.h_cus, "h_fs_dir", f.threshold, "h_fs_node")]
     ELSE LET t1 == fsync_update_cus_req(t, h.l_cus, f.dir, f.node, node_active)
              t2 == fsync_update_cus_req(t1, h.h_cus, f.dir, f.node, node_active)
              t3 == fsync_update_h_poss(t2, h.h_cus, f.threshold).cus
          IN [cus |-> t3, node_active |-> node_active,
              l |-> Frame(h.l_cus, "v_fs_dir", f.threshold, "v_fs_node"),
              h |-> Frame(h.h_cus, "v_fs_dir", f.threshold, "v_fs_node")]

(* the same for a single-axis node *)
PartitionNode1D(t, f) ==
  LET p  == IF f.dir = "h_fs_dir"
            THEN fsync_partition_h_cus(t, f.cus, f.threshold)
            ELSE fsync_partition_v_cus(t, f.cus, f.threshold)
      t1 == fsync_update_cus_req(t, p.l_cus, f.dir, f.node, p.ret)
      t2 == fsync_update_cus_req(t1, p.h_cus, f.dir, f.node, p.ret)
      u  == IF f.dir = "h_fs_dir"
            THEN fsync_update_h_poss(t2, p.h_cus, f.threshold)
            ELSE fsync_update_v_poss(t2, p.h_cus, f.threshold)
  IN [cus |-> u.cus, node_active |-> p.ret,
      l |-> Frame(p.l_cus, f.dir, u.ret, "hv_fs_node"),
      h |-> Frame(p.h_cus, f.dir, u.ret, "hv_fs_node")]

PartitionNode(t, f) ==
  IF f.node = "hv_fs_node" THEN PartitionNode2D(t, f) ELSE PartitionNode1D(t, f)

(* the whole call, every malloc succeeding: the array it leaves and   *)
(* the value it returns                                                *)
RECURSIVE fsync_partition_subtree(_, _)
fsync_partition_subtree(t, f) ==
  IF f.threshold < 1
  THEN [cus |-> t, ret |-> FALSE]
  ELSE LET n == PartitionNode(t, f)
           l_subtree == fsync_partition_subtree(n.cus, n.l)
           h_subtree == fsync_partition_subtree(l_subtree.cus, n.h)
       IN [cus |-> h_subtree.cus,
           ret |-> n.node_active \/ l_subtree.ret \/ h_subtree.ret]

(* ------------------------------------------------------------------ *)
(* fsync_init_reqs and fsync_gen_reqs                                  *)
(* ------------------------------------------------------------------ *)
DefaultReq == [fs_req_aggr |-> 0, fs_req_id |-> 0, req_node |-> "null_fs_node"]

(* faulty variant: the aggregate is not cleared *)
fsync_init_reqs_keep_aggr(c) ==
  [i \in DOMAIN c |->
     [c[i] EXCEPT !.fsync_req.fs_req_id = 0,
                  !.fsync_req.req_node = "null_fs_node"]]

fsync_init_reqs(c) ==
  [i \in DOMAIN c |-> [c[i] EXCEPT !.fsync_req = DefaultReq]]

(* both CUs of a pair get the same value in a request field *)
SetNode(c, node) ==
  [i \in DOMAIN c |-> [c[i] EXCEPT !.fsync_req.req_node = node]]
SetId(c, id) ==
  [i \in DOMAIN c |-> [c[i] EXCEPT !.fsync_req.fs_req_id = id]]
SetAggr(c, aggr) ==
  [i \in DOMAIN c |-> [c[i] EXCEPT !.fsync_req.fs_req_aggr = aggr]]

(* two CUs: the choice of the axis, with its write of req_node *)
TwoAxis(c, default_dir) ==
  LET x_dist == abs_diff(c[1].x_pos, c[2].x_pos)
      y_dist == abs_diff(c[1].y_pos, c[2].y_pos)
  IN IF x_dist > y_dist
     THEN [dir |-> "h_fs_dir", cus |-> SetNode(c, "h_fs_node")]
     ELSE IF x_dist = y_dist
     THEN [dir |-> default_dir, cus |-> SetNode(c, "hv_fs_node")]
     ELSE [dir |-> "v_fs_dir", cus |-> SetNode(c, "v_fs_node")]

(* two CUs more than one hop apart: the while (!done) loop *)
RECURSIVE HopWalk(_)
HopWalk(s) ==
  LET x_same == fsync_same_subtree(s.x_p0, s.x_p1, s.x_th) /\ s.x_th > 0
      s1 == IF x_same
            THEN [s EXCEPT !.x_p0 = fsync_update_pos(s.x_p0, s.x_th).pos,
                           !.x_p1 = fsync_update_pos(s.x_p1, s.x_th).pos,
                           !.x_th = fsync_update_pos(s.x_p1, s.x_th).ret,
                           !.hops = Decr(s.hops)]
            ELSE s
      y_same == fsync_same_subtree(s1.y_p0, s1.y_p1, s1.y_th) /\ s1.y_th > 0
      s2 == IF y_same
            THEN [s1 EXCEPT !.y_p0 = fsync_update_pos(s1.y_p0, s1.y_th).pos,
                            !.y_p1 = fsync_update_pos(s1.y_p1, s1.y_th).pos,
                            !.y_th = fsync_update_pos(s1.y_p1, s1.y_th).ret,
                            !.hops = Decr(s1.hops)]
            ELSE s1
  IN IF x_same /\ y_same THEN HopWalk(s2) ELSE s2

(* faulty variant: the shift is by hops instead of hops - 1 *)
TwoAggregateHops(hops) == ShiftLeft(1, hops)

TwoAggregate(hops) == ShiftLeft(1, hops - 1)

(* faulty variant: the parity of the first CU's coordinate, not of the smaller one *)
NbrIdFirst(dir, c) ==
  IF dir = "h_fs_dir"
  THEN (IF c[1].x_pos % 2 = 1 THEN 2 ELSE 0)
  ELSE (IF c[1].y_pos % 2 = 1 THEN 3 ELSE 1)

(* two CUs one hop apart: the request id *)
NbrId(dir, c) ==
  IF dir = "h_fs_dir"
  THEN (IF fsync_nbr_node(c[1].x_pos, c[2].x_pos) THEN 2 ELSE 0)
  ELSE (IF fsync_nbr_node(c[1].y_pos, c[2].y_pos) THEN 3 ELSE 1)

(* two CUs, after the choice of the axis: the array and the result *)
TwoFinish(c, dir) ==
  LET dist == abs_diff(c[1].x_pos, c[2].x_pos) + abs_diff(c[1].y_pos, c[2].y_pos)
  IN IF dist = 1
     THEN [cus |-> SetId(SetAggr(c, 1), NbrId(dir, c)), ret |-> TRUE]
     ELSE LET w == HopWalk([hops |-> FSYNC_N_LVL,
                            x_th |-> FSYNC_N_CU_X \div 2,
                            y_th |-> FSYNC_N_CU_Y \div 2,
                            x_p0 |-> c[1].x_pos, x_p1 |-> c[2].x_pos,
                            y_p0 |-> c[1].y_pos, y_p1 |-> c[2].y_pos])
          IN IF w.hops > 1
             THEN [cus |-> IF dir = "h_fs_dir"
                           THEN SetNode(SetId(SetAggr(c, TwoAggregate(w.hops)), 0), "h_fs_node")
                           ELSE SetNode(SetId(SetAggr(c, TwoAggregate(w.hops)), 1), "v_fs_node"),
                   ret |-> TRUE]
             ELSE [cus |-> c, ret |-> FALSE]

(* the pointers to temp_cus[0..num_cus-1] *)
CusPtr(c) == [i \in 1..Len(c) |-> i]

RootFrame(c, default_dir) ==
  Frame(CusPtr(c), default_dir, FSYNC_DEFAULT_TH, "hv_fs_node")

(* the loop copying the request fields back *)
CopyBack(c, temp) ==
  [i \in DOMAIN c |-> [c[i] EXCEPT !.fsync_req = temp[i].fsync_req]]

(* the call as a whole, every malloc succeeding *)
fsync_gen_reqs(c0, default_dir) ==
  LET c == fsync_init_reqs(c0)
  IN IF Len(c) < 2 THEN [cus |-> c, ret |-> FALSE]
     ELSE IF Len(c) = 2
     THEN IF abs_diff(c[1].x_pos, c[2].x_pos) + abs_diff(c[1].y_pos, c[2].y_pos) = 0
          THEN [cus |-> c, ret |-> FALSE]
          ELSE LET a == TwoAxis(c, default_dir) IN TwoFinish(a.cus, a.dir)
     ELSE LET r == fsync_partition_subtree(c, RootFrame(c, default_dir))
          IN [cus |-> CopyBack(c, r.cus), ret |-> r.ret]

(* ------------------------------------------------------------------ *)
(* The caller: its array of CUs and the calls it makes                 *)
(* ------------------------------------------------------------------ *)
VARIABLES
  cus,          \* the caller's array of CUs
  default_dir,  \* the default direction the caller passes
  pc,           \* where the current call is: idle, two_axis, two_finish, engine, done
  ret,          \* the value returned (in the engine: the flags or-ed so far)
  dir,          \* fsync_gen_reqs' local dir (two CUs)
  temp_cus,     \* fsync_gen_reqs' working copy
  stack,        \* pending calls of fsync_partition_subtree, innermost first
  alloc_failed, \* how many mallocs of the current call have returned NULL
  kind,         \* which call was made last: none, first, again, toggled, swapped
  hist          \* the array before the first call and the outcome of the first call

vars == <<cus, default_dir, pc, ret, dir, temp_cus, stack, alloc_failed, kind, hist>>

MkCU(id, pos, req) ==
  [cu_id |-> id, x_pos |-> pos[1], y_pos |-> pos[2], fsync_req |-> req]

(* request fields zero-initialised, as by the test's designated initialisers *)
ZeroReq == [fs_req_aggr |-> 0, fs_req_id |-> 0, req_node |-> "null_fs_node"]

(* request fields left over from some earlier use of the array *)
StaleReq == [fs_req_aggr |-> 5, fs_req_id |-> 3, req_node |-> "v_fs_node"]

(* a pair of CUs may lie beyond the grid edge: the generator takes any *)
(* unsigned coordinates and validates none                             *)
XCoords(n) ==
  IF n = 2 THEN 0..(FSYNC_N_CU_X - 1 + OutOfGrid) ELSE 0..(FSYNC_N_CU_X - 1)
YCoords(n) ==
  IF n = 2 THEN 0..(FSYNC_N_CU_Y - 1 + OutOfGrid) ELSE 0..(FSYNC_N_CU_Y - 1)

(* a list of n CUs at the positions ps, cu_id being the place in the list *)
MkCUs(ps, req) == [i \in DOMAIN ps |-> MkCU(i, ps[i], req)]

(* the array of the test: cu_id and position (x, y) of its eight CUs *)
TestCUs(req) ==
  << MkCU(0,  <<0, 0>>, req), MkCU(5,  <<1, 1>>, req),
     MkCU(2,  <<2, 0>>, req), MkCU(3,  <<3, 0>>, req),
     MkCU(8,  <<0, 2>>, req), MkCU(10, <<2, 2>>, req),
     MkCU(11, <<3, 2>>, req), MkCU(15, <<3, 3>>, req) >>

(* the caller's array before the call: every list of up to MaxCUs CUs *)
SmallInput(reqs) ==
  \E n \in 0..MaxCUs : \E ps \in [1..n -> XCoords(n) \X YCoords(n)] :
    \E req \in reqs : cus = MkCUs(ps, req)

(* ... or the array of the test *)
TestInput(reqs) == \E req \in reqs : cus = TestCUs(req)

(* ... or the first n CUs of the test's array *)
TestPrefix ==
  \E n \in 0..Len(TestCUs(ZeroReq)) : cus = SubSeq(TestCUs(ZeroReq), 1, n)

InitRest ==
  /\ default_dir \in fsync_dir
  /\ pc = "idle"
  /\ ret = FALSE
  /\ dir = "h_fs_dir"
  /\ temp_cus = << >>
  /\ stack = << >>
  /\ alloc_failed = 0
  /\ kind = "none"
  /\ hist = [input |-> cus, cus |-> cus, ret |-> FALSE]

Init ==
  /\ SmallInput({ZeroReq}) \/ TestInput({ZeroReq})
  /\ InitRest

InitStale ==
  /\ SmallInput({ZeroReq, StaleReq}) \/ TestInput({ZeroReq, StaleReq})
  /\ InitRest

InitTest == TestPrefix /\ InitRest

(* positions in the order of (x, y) *)
PosLeq(p, q) == p[1] < q[1] \/ (p[1] = q[1] /\ p[2] <= q[2])

(* the small arrays laid out in the order of their positions: every   *)
(* small array is a reordering of exactly one of them                 *)
InitSorted ==
  /\ \/ \E n \in 0..MaxCUs : \E ps \in [1..n -> XCoords(n) \X YCoords(n)] :
          /\ \A i \in 1..n : \A j \in 1..n : i < j => PosLeq(ps[i], ps[j])
          /\ cus = MkCUs(ps, ZeroReq)
     \/ TestInput({ZeroReq})
  /\ InitRest

(* ---- a call as one step (every malloc succeeding) ---- *)
CallWith(c, d, k) ==
  \E r \in {fsync_gen_reqs(c, d)} :
     /\ cus' = r.cus
     /\ ret' = r.ret
     /\ default_dir' = d
     /\ pc' = "done"
     /\ kind' = k
     /\ hist' = IF k = "first" THEN [hist EXCEPT !.cus = r.cus, !.ret = r.ret] ELSE hist
     /\ UNCHANGED <<dir, temp_cus, stack, alloc_failed>>

(* the caller's first call *)
Generate ==
  /\ pc = "idle"
  /\ CallWith(cus, default_dir, "first")

(* the caller calls again with the array as the first call left it *)
GenerateAgain ==
  /\ pc = "done" /\ kind = "first"
  /\ CallWith(cus, default_dir, "again")

(* the caller calls again with the other default direction *)
OtherDir(d) == IF d = "h_fs_dir" THEN "v_fs_dir" ELSE "h_fs_dir"

GenerateToggled ==
  /\ pc = "done" /\ kind = "first"
  /\ CallWith(cus, OtherDir(default_dir), "toggled")

(* the caller reorders its array and calls again: it exchanges two   *)
(* elements (an array of any length) ...                              *)
Swap(c, i, j) == [c EXCEPT ![i] = c[j], ![j] = c[i]]

GenerateSwapped ==
  /\ pc = "done" /\ kind = "first"
  /\ \E i \in DOMAIN cus : \E j \in DOMAIN cus :
       /\ i < j
       /\ CallWith(Swap(cus, i, j), default_dir, "reordered")

(* ... or lays a short array out in any other order *)
Orders(n) == {p \in [1..n -> 1..n] : \A i \in 1..n : \E j \in 1..n : p[j] = i}
Permute(c, p) == [i \in DOMAIN c |-> c[p[i]]]

GeneratePermuted ==
  /\ pc = "done" /\ kind = "first"
  /\ Len(cus) <= MaxCUs
  /\ \E p \in Orders(Len(cus)) :
       /\ Permute(cus, p) # cus
       /\ CallWith(Permute(cus, p), default_dir, "reordered")

(* ---- a call step by step ---- *)
Dist(c) == abs_diff(c[1].x_pos, c[2].x_pos) + abs_diff(c[1].y_pos, c[2].y_pos)

(* entry: the reset, the tests on num_cus and dist, the working copy *)
Enter ==
  /\ pc = "idle"
  /\ \E c \in {fsync_init_reqs(cus)} :
       /\ cus' = c
       /\ ret' = FALSE
       /\ IF Len(c) < 2 \/ (Len(c) = 2 /\ Dist(c) = 0)
          THEN pc' = "done" /\ UNCHANGED <<temp_cus, stack>>
          ELSE IF Len(c) = 2
          THEN pc' = "two_axis" /\ UNCHANGED <<temp_cus, stack>>
          ELSE /\ pc' = "engine"
               /\ temp_cus' = c
               /\ stack' = <<RootFrame(c, default_dir)>>
  /\ kind' = "first"
  /\ UNCHANGED <<default_dir, dir, alloc_failed, hist>>

(* entry, malloc of temp_cus or of cus_ptr returning NULL *)
EnterAllocFail ==
  /\ pc = "idle"
  /\ Len(cus) > 2
  /\ alloc_failed < MaxAllocFail
  /\ cus' = fsync_init_reqs(cus)
  /\ ret' = FALSE
  /\ pc' = "done"
  /\ alloc_failed' = alloc_failed + 1
  /\ kind' = "first"
  /\ UNCHANGED <<default_dir, dir, temp_cus, stack, hist>>

StepTwoAxis ==
  /\ pc = "two_axis"
  /\ \E a \in {TwoAxis(cus, default_dir)} :
       /\ cus' = a.cus
       /\ dir' = a.dir
  /\ pc' = "two_finish"
  /\ UNCHANGED <<default_dir, ret, temp_cus, stack, alloc_failed, kind, hist>>

StepTwoFinish ==
  /\ pc = "two_finish"
  /\ \E r \in {TwoFinish(cus, dir)} :
       /\ cus' = r.cus
       /\ ret' = r.ret
  /\ pc' = "done"
  /\ UNCHANGED <<default_dir, dir, temp_cus, stack, alloc_failed, kind, hist>>

(* the innermost pending call of fsync_partition_subtree runs up to its *)
(* sub-calls, which become pending in its place (low half first).  A    *)
(* call returns its own flag or-ed with what its sub-calls return, so   *)
(* the value the outermost call returns is the or of the flags of all   *)
(* calls: ret collects it.                                              *)
StepNode ==
  /\ pc = "engine"
  /\ stack # << >>
  /\ IF Head(stack).threshold < 1
     THEN /\ stack' = Tail(stack)
          /\ UNCHANGED <<temp_cus, ret>>
     ELSE \E n \in {PartitionNode(temp_cus, Head(stack))} :
            /\ temp_cus' = n.cus
            /\ ret' = (ret \/ n.node_active)
            /\ stack' = <<n.l, n.h>> \o Tail(stack)
  /\ UNCHANGED <<cus, default_dir, pc, dir, alloc_failed, kind, hist>>

(* the innermost pending call finds one of its scratch arrays NULL and *)
(* returns false                                                       *)
StepNodeAllocFail ==
  /\ pc = "engine"
  /\ stack # << >>
  /\ Head(stack).threshold >= 1
  /\ alloc_failed < MaxAllocFail
  /\ stack' = Tail(stack)
  /\ alloc_failed' = alloc_failed + 1
  /\ UNCHANGED <<cus, default_dir, pc, ret, dir, temp_cus, kind, hist>>

(* the outermost call has returned: the request fields are copied back *)
StepCopyBack ==
  /\ pc = "engine"
  /\ stack = << >>
  /\ cus' = CopyBack(cus, temp_cus)
  /\ pc' = "done"
  /\ UNCHANGED <<default_dir, ret, dir, temp_cus, stack, alloc_failed, kind, hist>>

(* ---- specifications ---- *)
(* one call, as one step *)
Next == Generate
Spec == Init /\ [][Next]_vars

(* two calls in a row on the same array *)
NextTwice == Generate \/ GenerateAgain
SpecTwice == InitStale /\ [][NextTwice]_vars

(* a call with each default direction *)
NextToggle == Generate \/ GenerateToggled
SpecToggle == Init /\ [][NextToggle]_vars

(* a call on an array and a call on the array reordered *)
NextReorder == Generate \/ GenerateSwapped \/ GeneratePermuted
SpecReorder == InitSorted /\ [][NextReorder]_vars

(* one call, step by step *)
NextStep == Enter \/ StepTwoAxis \/ StepTwoFinish \/ StepNode \/ StepCopyBack
SpecStep == Init /\ [][NextStep]_vars

(* one call on the test's CUs, step by step, malloc failing at most *)
(* MaxAllocFail times                                                *)
NextOOM == NextStep \/ EnterAllocFail \/ StepNodeAllocFail
SpecOOM == InitTest /\ [][NextOOM]_vars

(* ------------------------------------------------------------------ *)
(* Properties                                                          *)
(* ------------------------------------------------------------------ *)
Done == pc = "done"

InGrid(c) ==
  \A i \in DOMAIN c : c[i].x_pos < FSYNC_N_CU_X /\ c[i].y_pos < FSYNC_N_CU_Y

AtDefaults(c) == \A i \in DOMAIN c : c[i].fsync_req = DefaultReq

ReqOK(r) ==
  /\ r.fs_req_aggr \in Nat
  /\ r.fs_req_id \in 0..3
  /\ r.req_node \in fsync_node

CusOK(c) ==
  \A i \in DOMAIN c :
    /\ c[i].cu_id \in Nat /\ c[i].x_pos \in Nat /\ c[i].y_pos \in Nat
    /\ ReqOK(c[i].fsync_req)

TypeOK ==
  /\ CusOK(cus) /\ CusOK(temp_cus)
  /\ default_dir \in fsync_dir /\ dir \in fsync_dir
  /\ pc \in {"idle", "two_axis", "two_finish", "engine", "done"}
  /\ ret \in BOOLEAN
  /\ alloc_failed \in 0..MaxAllocFail
  /\ \A k \in DOMAIN stack :
       /\ stack[k].dir \in fsync_dir
       /\ stack[k].node \in fsync_node \ {"null_fs_node"}
       /\ stack[k].threshold \in 0..FSYNC_DEFAULT_TH
       /\ \A q \in DOMAIN stack[k].cus : stack[k].cus[q] \in DOMAIN temp_cus

(* the step-by-step call and the call as one step agree *)
StepwiseAgrees ==
  (Done /\ kind = "first")
    => [cus |-> cus, ret |-> ret] = fsync_gen_reqs(hist.input, default_dir)

(* C1: whenever fsync_gen_reqs returns false, every CU of the caller's *)
(* array has its request at the reset defaults (aggregate 0, id 0,     *)
(* node None), for every input list and either default direction.      *)
C1_FailureLeavesDefaults == (Done /\ ~ret) => AtDefaults(cus)

(* C2: after a call that returns true on CUs inside the grid, no CU's  *)
(* node is None and all CUs carry the same (node, id) pair.            *)
C2_AllAddressOneNode ==
  (Done /\ ret /\ InGrid(cus)) =>
    /\ Len(cus) >= 2
    /\ \A i \in DOMAIN cus : cus[i].fsync_req.req_node # "null_fs_node"
    /\ \A i \in DOMAIN cus : \A j \in DOMAIN cus :
         /\ cus[i].fsync_req.req_node = cus[j].fsync_req.req_node
         /\ cus[i].fsync_req.fs_req_id = cus[j].fsync_req.fs_req_id

(* three or more CUs in the grid, a successful call, and a barrier    *)
(* found below the root: the CUs differ in their aggregates            *)
C2_Witness ==
  /\ Done /\ ret /\ InGrid(cus) /\ Len(cus) >= 3
  /\ cus[1].fsync_req.req_node = "h_fs_node"
  /\ \E i \in DOMAIN cus : cus[i].fsync_req.fs_req_aggr # cus[1].fsync_req.fs_req_aggr

TwoDistinct(c) ==
  \E i \in DOMAIN c : \E j \in DOMAIN c :
    c[i].x_pos # c[j].x_pos \/ c[i].y_pos # c[j].y_pos

(* C3: for CUs inside the grid the call returns true if and only if    *)
(* there are at least two CUs and two of them are at different         *)
(* positions; when it returns false every aggregate is 0.              *)
C3_TrueIffTwoDistinct ==
  (Done /\ InGrid(cus)) =>
    /\ ret <=> (Len(cus) >= 2 /\ TwoDistinct(cus))
    /\ ~ret => \A i \in DOMAIN cus : cus[i].fsync_req.fs_req_aggr = 0

(* three CUs sharing one position: the traversal fails *)
C3_Witness ==
  Done /\ InGrid(cus) /\ Len(cus) >= 3 /\ ~TwoDistinct(cus) /\ ~ret

(* C4: two CUs at Manhattan distance 1: the call returns true, both    *)
(* get aggregate 1 and the same request, node is Horizontal when they  *)
(* differ in x and Vertical when they differ in y, and id is 2 or 0    *)
(* (Horizontal) or 3 or 1 (Vertical) as the smaller coordinate on that *)
(* axis is odd or even, whatever the default direction.                *)
Smaller(a, b) == IF a < b THEN a ELSE b

C4_NeighbourPair ==
  (Done /\ Len(cus) = 2 /\ Dist(cus) = 1) =>
    /\ ret
    /\ cus[1].fsync_req = cus[2].fsync_req
    /\ cus[1].fsync_req.fs_req_aggr = 1
    /\ IF cus[1].x_pos # cus[2].x_pos
       THEN /\ cus[1].fsync_req.req_node = "h_fs_node"
            /\ cus[1].fsync_req.fs_req_id =
                 (IF Smaller(cus[1].x_pos, cus[2].x_pos) % 2 = 1 THEN 2 ELSE 0)
       ELSE /\ cus[1].fsync_req.req_node = "v_fs_node"
            /\ cus[1].fsync_req.fs_req_id =
                 (IF Smaller(cus[1].y_pos, cus[2].y_pos) % 2 = 1 THEN 3 ELSE 1)

(* a vertical pair whose lower CU is on an odd row, the default        *)
(* direction being horizontal                                          *)
C4_Witness ==
  /\ Done /\ Len(cus) = 2 /\ Dist(cus) = 1
  /\ default_dir = "h_fs_dir"
  /\ cus[1].fsync_req.fs_req_id = 3

(* C5: the result does not depend on the order of the list: the call   *)
(* on the reordered array returns what the call on the array returned  *)
(* and gives each CU, matched by cu_id, the same request.              *)
C5_OrderIndependent ==
  (Done /\ kind = "reordered") =>
    /\ ret = hist.ret
    /\ \A i \in DOMAIN cus : \A j \in DOMAIN hist.cus :
         cus[i].cu_id = hist.cus[j].cu_id => cus[i] = hist.cus[j]

(* a reordered array of three or more CUs that moved the first CU, the *)
(* call succeeding with requests that differ between the CUs           *)
C5_Witness ==
  /\ Done /\ kind = "reordered" /\ ret /\ Len(cus) >= 3
  /\ cus[1].cu_id # hist.cus[1].cu_id
  /\ cus[1].fsync_req # hist.cus[1].fsync_req

(* C6: a call never changes cu_id, x_pos or y_pos, and a second call   *)
(* on the array as the first call left it, with the same default       *)
(* direction, returns the same value and leaves the same requests:     *)
(* what the requests held before a call has no influence.              *)
C6_FunctionOfPositions ==
  /\ Done =>
       /\ Len(cus) = Len(hist.input)
       /\ \A i \in DOMAIN cus :
            /\ cus[i].cu_id = hist.input[i].cu_id
            /\ cus[i].x_pos = hist.input[i].x_pos
            /\ cus[i].y_pos = hist.input[i].y_pos
  /\ (Done /\ kind = "again") => (ret = hist.ret /\ cus = hist.cus)

(* a second successful call on three or more CUs whose requests were   *)
(* stale before the first call and are not at the defaults now         *)
C6_Witness ==
  /\ Done /\ kind = "again" /\ ret /\ Len(cus) >= 3
  /\ hist.input[1].fsync_req = StaleReq
  /\ cus[1].fsync_req.fs_req_aggr > 1

(* C7: after a successful call every aggregate fits in FSYNC_N_LVL     *)
(* bits.                                                               *)
C7_AggregateFits ==
  (Done /\ ret) =>
    \A i \in DOMAIN cus : cus[i].fsync_req.fs_req_aggr < 2 ^ FSYNC_N_LVL

(* a CU of three or more whose aggregate has all FSYNC_N_LVL bits set *)
C7_Witness ==
  /\ Done /\ ret /\ Len(cus) >= 3
  /\ \E i \in DOMAIN cus : cus[i].fsync_req.fs_req_aggr = 2 ^ FSYNC_N_LVL - 1

(* C8: if a malloc fails at any level of the partition engine or at    *)
(* the entry, fsync_gen_reqs returns false and the caller's requests   *)
(* hold nothing of the partial traversal.                              *)
C8_AllocFailureAborts ==
  (Done /\ alloc_failed > 0) => (~ret /\ AtDefaults(cus))

(* C9: after the reset of a call, a node field changes only from None  *)
(* to a concrete value: no step of the call overwrites a node that is  *)
(* set, in the caller's array or in the working copy.                  *)
KeepsNodes(c, d) ==
  \A i \in DOMAIN c :
    (i \in DOMAIN d /\ c[i].fsync_req.req_node # "null_fs_node")
      => d[i].fsync_req.req_node = c[i].fsync_req.req_node

C9_FirstWriteWins ==
  [][pc # "idle" => (KeepsNodes(cus, cus') /\ KeepsNodes(temp_cus, temp_cus'))]_vars

(* C10: the default direction changes nothing for two CUs with         *)
(* dx # dy, nor for three or more CUs when exactly one of the two axes *)
(* splits the whole set at the base threshold: the call with the other *)
(* default direction returns the same value and leaves the same        *)
(* requests.                                                           *)
SplitsH(c) ==
  /\ \E i \in DOMAIN c : c[i].x_pos < FSYNC_DEFAULT_TH
  /\ \E i \in DOMAIN c : c[i].x_pos >= FSYNC_DEFAULT_TH
SplitsV(c) ==
  /\ \E i \in DOMAIN c : c[i].y_pos < FSYNC_DEFAULT_TH
  /\ \E i \in DOMAIN c : c[i].y_pos >= FSYNC_DEFAULT_TH

NotTied(c) ==
  \/ /\ Len(c) = 2
     /\ abs_diff(c[1].x_pos, c[2].x_pos) # abs_diff(c[1].y_pos, c[2].y_pos)
  \/ /\ Len(c) >= 3
     /\ SplitsH(c) # SplitsV(c)

C10_DirectionOnlyBreaksTies ==
  (Done /\ kind = "toggled" /\ NotTied(cus)) => (ret = hist.ret /\ cus = hist.cus)

(* three or more CUs split by the vertical axis only, the default      *)
(* direction having been horizontal and then vertical                  *)
C10_Witness ==
  /\ Done /\ kind = "toggled" /\ ret /\ Len(cus) >= 3
  /\ SplitsV(cus) /\ ~SplitsH(cus)
  /\ default_dir = "v_fs_dir"

====
